---- MODULE Spec2Model ----
(***************************************************************************)
(* EcsTask (packages/@aws-cdk/aws-events-targets/lib/ecs-task.ts): an      *)
(* event-rule target that starts a task on an ECS cluster.                 *)
(*                                                                         *)
(* A JavaScript object is a TLA+ record whose DOMAIN holds exactly the     *)
(* keys that are not undefined: `x.k !== undefined` is "k" \in DOMAIN x.   *)
(* One task definition is shared by every EcsTask that is constructed;     *)
(* its construct-tree node (children, warnings) is the mutable state the   *)
(* constructor reads and writes.                                           *)
(***************************************************************************)
EXTENDS Integers, Sequences, FiniteSets, TLC

VARIABLES
  taskDefinition,  \* the ecs.TaskDefinition handed to every EcsTask (its attributes)
  children,        \* taskDefinition.node: its child constructs, in creation order
  warnings,        \* taskDefinition.node: the warnings recorded on it, in order
  instances,       \* the EcsTask objects constructed so far, in construction order
  thrown,          \* what the most recent `new EcsTask(props)` threw, or NoError
  bound            \* the RuleTargetConfigs bind returned: [task, config] pairs

vars == <<taskDefinition, children, warnings, instances, thrown, bound>>

\* How many EcsTask objects are constructed on the task definition.
MaxInstances == 2

Has(obj, key) == key \in DOMAIN obj

-----------------------------------------------------------------------------
(* The collaborators' values *)

AWS_VPC == "awsvpc"
BRIDGE == "bridge"
NetworkMode == {AWS_VPC, BRIDGE}

PUBLIC == "Public"
PRIVATE == "Private"
ISOLATED == "Isolated"

\* the cluster's VPC, and the subnets of each type in it
TheVpc == "vpc-1"
SubnetsOf(vpc) ==
  [Public |-> <<"subnet-pub-a", "subnet-pub-b">>,
   Private |-> <<"subnet-priv-a">>,
   Isolated |-> <<"subnet-iso-a">>]

TheCluster == [clusterArn |-> "arn:cluster/one", vpc |-> TheVpc]

TaskDefinitionArn == "arn:task-definition/one"
TaskRole == [roleArn |-> "arn:role/task"]
\* an execution role of its own, or the task role used as execution role too
ExecutionRoles == {[roleArn |-> "arn:role/execution"], TaskRole}

\* The launch types a task definition is compatible with (ecs.Compatibility:
\* EC2, FARGATE, EC2_AND_FARGATE)
Compatibilities ==
  { [isEc2Compatible |-> TRUE, isFargateCompatible |-> FALSE],
    [isEc2Compatible |-> FALSE, isFargateCompatible |-> TRUE],
    [isEc2Compatible |-> TRUE, isFargateCompatible |-> TRUE] }

\* The task definitions an EcsTask is built on, with or without an
\* execution role. ecs.TaskDefinition refuses a Fargate-compatible task
\* definition whose network mode is not awsvpc.
TaskDefinitions ==
  { td \in { [taskDefinitionArn |-> TaskDefinitionArn, networkMode |-> nm,
              taskRole |-> TaskRole] @@ compat @@ exec :
              nm \in NetworkMode, compat \in Compatibilities,
              exec \in {[taskDefinitionArn |-> TaskDefinitionArn]}
                       \cup {[executionRole |-> r] : r \in ExecutionRoles} } :
      td.isFargateCompatible => td.networkMode = AWS_VPC }

\* Security groups a caller owns and passes in
LegacyGroup == [securityGroupId |-> "sg-legacy"]
GroupA == [securityGroupId |-> "sg-a"]
GroupB == [securityGroupId |-> "sg-b"]

\* props.securityGroup: undefined, or a group
SecurityGroupInputs == {[cluster |-> TheCluster], [securityGroup |-> LegacyGroup]}
\* props.securityGroups: undefined, the empty list, or a list
SecurityGroupsInputs ==
  {[cluster |-> TheCluster], [securityGroups |-> <<>>], [securityGroups |-> <<GroupB, GroupA>>]}

\* props.taskCount, props.containerOverrides and props.subnetSelection:
\* all left out, or all given with the count 0
OtherInputs ==
  { [cluster |-> TheCluster],
    [cluster |-> TheCluster, taskCount |-> 0,
     containerOverrides |-> <<[containerName |-> "web", command |-> <<"run">>, cpu |-> 256]>>,
     subnetSelection |-> [subnetType |-> PUBLIC]] }

\* a count above 1, no override in the list, isolated subnets
ManyTasks ==
  [cluster |-> TheCluster, taskCount |-> 2, containerOverrides |-> <<>>,
   subnetSelection |-> [subnetType |-> ISOLATED]]

\* EcsTaskProps: every combination of the security-group inputs with
\* OtherInputs, and ManyTasks
PropsSet ==
  { o @@ sg @@ sgs : o \in OtherInputs, sg \in SecurityGroupInputs,
                     sgs \in SecurityGroupsInputs }
  \cup {ManyTasks}

NoError == "none"
OnlyOneError == "Only one of SecurityGroup or SecurityGroups can be populated."
IgnoredWarning == "security groups are ignored when network mode is not awsvpc"
SecurityGroupChildId == "SecurityGroup"

-----------------------------------------------------------------------------
(* The construct tree under the task definition *)

\* node.tryFindChild(id): the child of that id as a list of one, or <<>>
tryFindChild(nodeChildren, id) ==
  LET found == {k \in DOMAIN nodeChildren : nodeChildren[k].id = id}
  IN IF found = {} THEN <<>>
     ELSE <<nodeChildren[CHOOSE k \in found : \A m \in found : k <= m].construct>>

\* new ec2.SecurityGroup(scope, id, { vpc }): the child it adds to scope
NewSecurityGroup(scopeArn, id, vpc) ==
  [id |-> id,
   construct |-> [securityGroupId |-> "sg-created", vpc |-> vpc, scope |-> scopeArn]]

\* node.addWarning(message)
addWarning(nodeWarnings, message) == Append(nodeWarnings, message)

-----------------------------------------------------------------------------
(* EcsTask.constructor *)

\* the guard of the throw, were an empty list taken as not populated
BothPopulatedNonEmpty(props) ==
  Has(props, "securityGroup") /\ Has(props, "securityGroups") /\ props.securityGroups # <<>>

\* the guard of the throw
BothPopulated(props) == Has(props, "securityGroup") /\ Has(props, "securityGroups")

\* this.taskCount
TaskCountOf(props) == IF Has(props, "taskCount") THEN props.taskCount ELSE 1

\* the warning's condition, were the securityGroups list forgotten
LegacySecurityGroupSupplied(props) == Has(props, "securityGroup")

\* whether a security-group input is given although the mode ignores it
SecurityGroupSupplied(props) == Has(props, "securityGroup") \/ Has(props, "securityGroups")

\* `if (props.securityGroups)`, were the empty array falsy
NonEmptyListGiven(props) == Has(props, "securityGroups") /\ props.securityGroups # <<>>

\* `if (props.securityGroups)`: an array, empty or not, is truthy
ExplicitListGiven(props) == Has(props, "securityGroups")

\* the same, were the child looked up before props.securityGroup
ExistingSecurityGroupChildFirst(props, nodeChildren) ==
  IF tryFindChild(nodeChildren, SecurityGroupChildId) # <<>>
  THEN tryFindChild(nodeChildren, SecurityGroupChildId)
  ELSE IF Has(props, "securityGroup") THEN <<props.securityGroup>> ELSE <<>>

\* the same, were the child never looked up
ExistingSecurityGroupNoLookup(props, nodeChildren) ==
  IF Has(props, "securityGroup") THEN <<props.securityGroup>> ELSE <<>>

\* `props.securityGroup || node.tryFindChild('SecurityGroup')`, as a list of
\* one or <<>>
ExistingSecurityGroup(props, nodeChildren) ==
  IF Has(props, "securityGroup") THEN <<props.securityGroup>>
  ELSE tryFindChild(nodeChildren, SecurityGroupChildId)

\* The constructor's outcome on a task definition td whose node holds
\* nodeChildren and nodeWarnings: what it threw, the object built (this,
\* when nothing was thrown) and the node afterwards.
EcsTaskConstructor(props, td, nodeChildren, nodeWarnings) ==
  IF BothPopulated(props)
  THEN [threw |-> OnlyOneError, children |-> nodeChildren, warnings |-> nodeWarnings]
  ELSE
    LET fields == [props |-> props, cluster |-> props.cluster,
                   taskCount |-> TaskCountOf(props)]
    IN IF td.networkMode # AWS_VPC
       THEN [threw |-> NoError, this |-> fields, children |-> nodeChildren,
             warnings |-> IF SecurityGroupSupplied(props)
                          THEN addWarning(nodeWarnings, IgnoredWarning)
                          ELSE nodeWarnings]
       ELSE IF ExplicitListGiven(props)
       THEN [threw |-> NoError,
             this |-> fields @@ [securityGroups |-> props.securityGroups],
             children |-> nodeChildren, warnings |-> nodeWarnings]
       ELSE
         LET existing == ExistingSecurityGroup(props, nodeChildren)
             created == NewSecurityGroup(td.taskDefinitionArn, SecurityGroupChildId,
                                         props.cluster.vpc)
             securityGroup == IF existing # <<>> THEN existing[1] ELSE created.construct
         IN [threw |-> NoError,
             this |-> fields @@ [securityGroup |-> securityGroup,
                                 securityGroups |-> <<securityGroup>>],
             children |-> IF existing # <<>> THEN nodeChildren
                          ELSE Append(nodeChildren, created),
             warnings |-> nodeWarnings]

-----------------------------------------------------------------------------
(* EcsTask.bind *)

\* the rules a target is bound to, and the optional _id argument (a list of
\* one, or <<>> when left out)
Rules == {"rule-a"}
Ids == {<<>>, <<"Target0">>}

\* the statements, were the task role's pass-role left out when the
\* execution role's statement names the same role
policyStatementsMerged(task, td) ==
  <<[actions |-> <<"ecs:RunTask">>,
     resources |-> <<td.taskDefinitionArn>>,
     conditions |-> [ArnEquals |-> ("ecs:cluster" :> task.cluster.clusterArn)]]>>
  \o (IF Has(td, "executionRole")
      THEN <<[actions |-> <<"iam:PassRole">>, resources |-> <<td.executionRole.roleArn>>]>>
      ELSE <<>>)
  \o (IF /\ td.isFargateCompatible
         /\ ~(Has(td, "executionRole") /\ td.executionRole.roleArn = td.taskRole.roleArn)
      THEN <<[actions |-> <<"iam:PassRole">>, resources |-> <<td.taskRole.roleArn>>]>>
      ELSE <<>>)

\* the statements the events role needs, in the order they are pushed
policyStatements(task, td) ==
  <<[actions |-> <<"ecs:RunTask">>,
     resources |-> <<td.taskDefinitionArn>>,
     conditions |-> [ArnEquals |-> ("ecs:cluster" :> task.cluster.clusterArn)]]>>
  \o (IF Has(td, "executionRole")
      THEN <<[actions |-> <<"iam:PassRole">>, resources |-> <<td.executionRole.roleArn>>]>>
      ELSE <<>>)
  \o (IF td.isFargateCompatible
      THEN <<[actions |-> <<"iam:PassRole">>, resources |-> <<td.taskRole.roleArn>>]>>
      ELSE <<>>)

\* singletonEventRole(scope, policyStatements): the events role of the scope,
\* holding the statements it was handed
singletonEventRole(td, statements) ==
  [scope |-> td.taskDefinitionArn, id |-> "EventsRole", policyStatements |-> statements]

\* ({ containerName, ...overrides }) => ({ name: containerName, ...overrides })
renameContainer(override) ==
  ("name" :> override.containerName)
  @@ [k \in DOMAIN override \ {"containerName"} |-> override[k]]

\* const input = { containerOverrides }
inputOf(task) ==
  IF Has(task.props, "containerOverrides")
  THEN [containerOverrides |->
          [k \in DOMAIN task.props.containerOverrides |->
             renameContainer(task.props.containerOverrides[k])]]
  ELSE <<>>

\* events.RuleTargetInput.fromObject(obj)
fromObject(obj) == [kind |-> "RuleTargetInput", object |-> obj]

\* the subnet selection, were public subnets the default
subnetSelectionPublicDefault(task) ==
  IF Has(task.props, "subnetSelection") THEN task.props.subnetSelection
  ELSE [subnetType |-> PUBLIC]

\* this.props.subnetSelection || { subnetType: ec2.SubnetType.PRIVATE }
subnetSelectionOf(task) ==
  IF Has(task.props, "subnetSelection") THEN task.props.subnetSelection
  ELSE [subnetType |-> PRIVATE]

\* subnetType === PUBLIC ? 'ENABLED' : 'DISABLED'
assignPublicIp(subnetSelection) ==
  IF Has(subnetSelection, "subnetType") /\ subnetSelection.subnetType = PUBLIC
  THEN "ENABLED" ELSE "DISABLED"

\* the launch type, were Fargate compatibility asked first
launchTypeFargateFirst(td) == IF td.isFargateCompatible THEN "FARGATE" ELSE "EC2"

\* isEc2Compatible ? 'EC2' : 'FARGATE'
launchType(td) == IF td.isEc2Compatible THEN "EC2" ELSE "FARGATE"

\* vpc.selectSubnets(selection).subnetIds
selectSubnets(vpc, subnetSelection) == SubnetsOf(vpc)[subnetSelection.subnetType]

\* this.securityGroups && this.securityGroups.map(sg => sg.securityGroupId)
securityGroupIds(task) ==
  IF Has(task, "securityGroups")
  THEN [securityGroups |->
          [k \in DOMAIN task.securityGroups |-> task.securityGroups[k].securityGroupId]]
  ELSE <<>>

ecsParametersOf(task, td) ==
  LET baseEcsParameters == [taskCount |-> task.taskCount,
                            taskDefinitionArn |-> td.taskDefinitionArn]
      subnetSelection == subnetSelectionOf(task)
  IN IF td.networkMode = AWS_VPC
     THEN baseEcsParameters @@
          [launchType |-> launchType(td),
           networkConfiguration |->
             [awsVpcConfiguration |->
                [subnets |-> selectSubnets(task.props.cluster.vpc, subnetSelection),
                 assignPublicIp |-> assignPublicIp(subnetSelection)]
                @@ securityGroupIds(task)]]
     ELSE baseEcsParameters

\* the id, were the _id argument handed on
targetIdPassed(id) == IF id = <<>> THEN "" ELSE id[1]

\* id: ''
targetId(id) == ""

\* bind(_rule, _id) on task, whose task definition is td
bind(task, td, rule, id) ==
  [id |-> targetId(id),
   arn |-> task.cluster.clusterArn,
   role |-> singletonEventRole(td, policyStatements(task, td)),
   ecsParameters |-> ecsParametersOf(task, td),
   input |-> fromObject(inputOf(task)),
   targetResource |-> td.taskDefinitionArn]

-----------------------------------------------------------------------------
Init ==
  /\ taskDefinition \in TaskDefinitions
  /\ children = <<>>
  /\ warnings = <<>>
  /\ instances = <<>>
  /\ thrown = NoError
  /\ bound = {}

\* new EcsTask(props)
New(props) ==
  LET out == EcsTaskConstructor(props, taskDefinition, children, warnings)
  IN /\ Has(out, "this") => Len(instances) < MaxInstances
     /\ thrown' = out.threw
     /\ children' = out.children
     /\ warnings' = out.warnings
     /\ instances' = IF Has(out, "this") THEN Append(instances, out.this) ELSE instances
     /\ UNCHANGED <<taskDefinition, bound>>

Construct == \E props \in PropsSet : New(props)

\* instances[i].bind(rule, id)
Bind ==
  \E i \in DOMAIN instances, rule \in Rules, id \in Ids :
    /\ bound' = bound \cup {[task |-> i, config |-> bind(instances[i], taskDefinition, rule, id)]}
    /\ UNCHANGED <<taskDefinition, children, warnings, instances, thrown>>

Next == Construct \/ Bind

Spec == Init /\ [][Next]_vars

-----------------------------------------------------------------------------
(* What the properties below speak of *)

Tasks == DOMAIN instances

NoSecurityGroupInput(props) ==
  ~Has(props, "securityGroup") /\ ~Has(props, "securityGroups")

\* the security groups created under the task definition
CreatedGroups == {k \in DOMAIN children : children[k].id = SecurityGroupChildId}

\* the tasks constructed with no security-group input
DefaultedTasks == {i \in Tasks : NoSecurityGroupInput(instances[i].props)}

StatementsOf(b) == b.config.role.policyStatements

RunTaskStatement ==
  [actions |-> <<"ecs:RunTask">>,
   resources |-> <<TaskDefinitionArn>>,
   conditions |-> [ArnEquals |-> ("ecs:cluster" :> TheCluster.clusterArn)]]

PassRoleStatement(role) == [actions |-> <<"iam:PassRole">>, resources |-> <<role.roleArn>>]

-----------------------------------------------------------------------------
\* C1: a construction given both securityGroup and securityGroups throws
\* 'Only one of SecurityGroup or SecurityGroups can be populated.', whatever
\* the network mode and the other inputs, and leaves the task definition
\* as it was: no warning recorded, no security group created, no task built.
C1_BothPopulatedThrowsFirst ==
  [][\A props \in PropsSet :
       (Has(props, "securityGroup") /\ Has(props, "securityGroups") /\ New(props))
       => /\ thrown' = OnlyOneError
          /\ UNCHANGED <<children, warnings, instances>>]_vars

\* a throw on a task definition of another mode than awsvpc (where a
\* construction that went on would have recorded a warning)
C1_Witness ==
  /\ thrown = OnlyOneError
  /\ taskDefinition.networkMode # AWS_VPC
  /\ warnings = <<>>
  /\ children = <<>>

\* C2: the statements of every bind start with the ecs:RunTask statement on
\* the task-definition ARN conditioned on the cluster ARN; the execution
\* role's iam:PassRole follows exactly when there is an execution role, the
\* task role's iam:PassRole comes last exactly when the task definition is
\* Fargate-compatible; nothing else is in the list and nothing is merged.
C2_PolicyStatements ==
  \A b \in bound :
    LET st == StatementsOf(b)
        exec == Has(taskDefinition, "executionRole")
        fargate == taskDefinition.isFargateCompatible
    IN /\ Len(st) = 1 + (IF exec THEN 1 ELSE 0) + (IF fargate THEN 1 ELSE 0)
       /\ st[1] = RunTaskStatement
       /\ exec => st[2] = PassRoleStatement(taskDefinition.executionRole)
       /\ fargate => st[Len(st)] = PassRoleStatement(taskDefinition.taskRole)

\* three statements although the two roles are the same role
C2_Witness ==
  \E b \in bound :
    /\ Len(StatementsOf(b)) = 3
    /\ StatementsOf(b)[2] = StatementsOf(b)[3]

\* the case of C3: awsvpc, EC2- and Fargate-compatible, an execution role,
\* and neither subnetSelection nor containerOverrides nor taskCount given
DefaultsOnBoth(b) ==
  /\ taskDefinition.networkMode = AWS_VPC
  /\ taskDefinition.isEc2Compatible
  /\ taskDefinition.isFargateCompatible
  /\ Has(taskDefinition, "executionRole")
  /\ ~Has(instances[b.task].props, "subnetSelection")
  /\ ~Has(instances[b.task].props, "containerOverrides")
  /\ ~Has(instances[b.task].props, "taskCount")

LaunchesOnEc2WithDefaults(b) ==
  /\ b.config.ecsParameters.launchType = "EC2"
  /\ b.config.ecsParameters.networkConfiguration.awsVpcConfiguration.assignPublicIp
       = "DISABLED"
  /\ b.config.ecsParameters.taskCount = 1

\* C3 as stated: in that case bind yields launch type EC2, public IP
\* DISABLED, task count 1 and exactly 2 statements.
C3_TwoStatements ==
  \A b \in bound :
    DefaultsOnBoth(b) => (LaunchesOnEc2WithDefaults(b) /\ Len(StatementsOf(b)) = 2)

\* C3 amended: in that case bind yields launch type EC2, public IP DISABLED,
\* task count 1 and exactly 3 statements: run-task, the execution role's
\* pass-role and the task role's pass-role.
C3_ThreeStatements ==
  \A b \in bound :
    DefaultsOnBoth(b) =>
      /\ LaunchesOnEc2WithDefaults(b)
      /\ StatementsOf(b) = <<RunTaskStatement,
                             PassRoleStatement(taskDefinition.executionRole),
                             PassRoleStatement(taskDefinition.taskRole)>>

C3_Witness == \E b \in bound : DefaultsOnBoth(b)

\* C4: on an awsvpc task definition, once a task was constructed with no
\* security-group input exactly one security group has been created under
\* the task definition, however many such constructions there were, and
\* every such task holds that group as securityGroup and as the only
\* element of securityGroups; never is there more than one.
C4_OneCreatedGroup ==
  taskDefinition.networkMode = AWS_VPC =>
    /\ Cardinality(CreatedGroups) <= 1
    /\ DefaultedTasks # {} =>
         /\ Cardinality(CreatedGroups) = 1
         /\ \A i \in DefaultedTasks, k \in CreatedGroups :
              /\ Has(instances[i], "securityGroup")
              /\ instances[i].securityGroup = children[k].construct
              /\ instances[i].securityGroups = <<children[k].construct>>

\* two constructions with no security-group input, one group
C4_Witness ==
  /\ taskDefinition.networkMode = AWS_VPC
  /\ Cardinality(DefaultedTasks) >= 2
  /\ Len(children) = 1

\* C5: on a task definition of another mode than awsvpc no task has
\* securityGroup or securityGroups, no security group is created, and the
\* warnings on the task definition are one 'security groups are ignored'
\* warning per task constructed with a security-group input.
C5_IgnoredOutsideAwsVpc ==
  taskDefinition.networkMode # AWS_VPC =>
    /\ \A i \in Tasks :
         ~Has(instances[i], "securityGroup") /\ ~Has(instances[i], "securityGroups")
    /\ children = <<>>
    /\ Len(warnings) = Cardinality(Tasks \ DefaultedTasks)
    /\ \A k \in DOMAIN warnings : warnings[k] = IgnoredWarning

\* a task given a list and a task given nothing: one warning
C5_Witness ==
  /\ taskDefinition.networkMode # AWS_VPC
  /\ \E i \in Tasks : Has(instances[i].props, "securityGroups")
  /\ DefaultedTasks # {}
  /\ Len(warnings) = 1

\* C6: on an awsvpc task definition a task given an explicit securityGroups
\* list holds that very list (the empty list too), has no securityGroup, and
\* its construction created no security group: a created group stems from a
\* task given no security-group input.
C6_ExplicitListVerbatim ==
  taskDefinition.networkMode = AWS_VPC =>
    /\ \A i \in Tasks :
         Has(instances[i].props, "securityGroups") =>
           /\ Has(instances[i], "securityGroups")
           /\ instances[i].securityGroups = instances[i].props.securityGroups
           /\ ~Has(instances[i], "securityGroup")
    /\ children # <<>> => DefaultedTasks # {}

\* the empty list and a list of two, and nothing created
C6_Witness ==
  /\ taskDefinition.networkMode = AWS_VPC
  /\ \E i \in Tasks :
       /\ Has(instances[i].props, "securityGroups")
       /\ instances[i].securityGroups = <<>>
  /\ \E i \in Tasks :
       /\ Has(instances[i].props, "securityGroups")
       /\ instances[i].securityGroups = <<GroupB, GroupA>>
  /\ children = <<>>

\* C7: the task count of every task and of every bind result is at least 1:
\* 1 when the caller gave none, the caller's value otherwise.
C7_TaskCountAtLeastOne ==
  /\ \A i \in Tasks :
       /\ instances[i].taskCount >= 1
       /\ instances[i].taskCount =
            (IF Has(instances[i].props, "taskCount") THEN instances[i].props.taskCount ELSE 1)
  /\ \A b \in bound :
       /\ b.config.ecsParameters.taskCount >= 1
       /\ b.config.ecsParameters.taskCount = instances[b.task].taskCount

\* C8: the launch parameters of every bind hold taskCount and
\* taskDefinitionArn; they hold launchType and networkConfiguration exactly
\* when the network mode is awsvpc, and then launchType is EC2 when the task
\* definition is EC2-compatible and FARGATE only when it is not.
C8_LaunchParameters ==
  \A b \in bound :
    LET ep == b.config.ecsParameters
        eni == taskDefinition.networkMode = AWS_VPC
    IN /\ Has(ep, "taskCount") /\ Has(ep, "taskDefinitionArn")
       /\ ep.taskDefinitionArn = taskDefinition.taskDefinitionArn
       /\ Has(ep, "launchType") <=> eni
       /\ Has(ep, "networkConfiguration") <=> eni
       /\ DOMAIN ep \subseteq
            {"taskCount", "taskDefinitionArn", "launchType", "networkConfiguration"}
       /\ eni => /\ taskDefinition.isEc2Compatible => ep.launchType = "EC2"
                 /\ ep.launchType = "FARGATE" => ~taskDefinition.isEc2Compatible
                 /\ ep.launchType \in {"EC2", "FARGATE"}

\* EC2 chosen for a task definition that is Fargate-compatible too
C8_Witness ==
  \E b \in bound :
    /\ taskDefinition.isEc2Compatible /\ taskDefinition.isFargateCompatible
    /\ b.config.ecsParameters.launchType = "EC2"

\* C9: a bind changes neither the tasks (securityGroup, securityGroups,
\* taskCount) nor what is under the task definition; all binds of one task,
\* whatever rule and id they were given and whatever was constructed in
\* between, return the same target ARN, launch parameters, input and
\* statements; the id returned is always the empty string.
C9_BindPureAndStable ==
  [][/\ bound' # bound => UNCHANGED <<instances, children, warnings, taskDefinition>>
     /\ \A b1 \in bound', b2 \in bound' : b1.task = b2.task => b1.config = b2.config
     /\ \A b \in bound' : b.config.id = ""]_vars

\* the first task bound, with a second task constructed and a group created
C9_Witness ==
  /\ \E b \in bound : b.task = 1
  /\ Len(instances) >= 2
  /\ children # <<>>

\* the tasks resolved by the last branch of the constructor
ResolvedTasks == {i \in Tasks : ~Has(instances[i].props, "securityGroups")}

\* C10 as stated: on an awsvpc task definition a task constructed without
\* explicit list after a group was created under the task definition holds
\* that created group, also when it was given a legacy securityGroup.
C10_CreatedGroupFirst ==
  taskDefinition.networkMode = AWS_VPC =>
    \A i \in ResolvedTasks, j \in DefaultedTasks, k \in CreatedGroups :
      j < i => /\ instances[i].securityGroup = children[k].construct
               /\ instances[i].securityGroups = <<children[k].construct>>

\* C10 amended: on an awsvpc task definition a task constructed without
\* explicit list holds the legacy securityGroup when one was given, also
\* when a created group exists; the created group only when none was given;
\* and a group is created only when neither exists. In each case
\* securityGroup and the single element of securityGroups are that group.
C10_LegacyGroupFirst ==
  taskDefinition.networkMode = AWS_VPC =>
    /\ \A i \in ResolvedTasks :
         /\ Has(instances[i], "securityGroup")
         /\ instances[i].securityGroups = <<instances[i].securityGroup>>
         /\ IF Has(instances[i].props, "securityGroup")
            THEN instances[i].securityGroup = instances[i].props.securityGroup
            ELSE \E k \in CreatedGroups :
                   instances[i].securityGroup = children[k].construct
    /\ Cardinality(CreatedGroups) <= 1
    /\ CreatedGroups # {} => DefaultedTasks # {}

\* a legacy group given after a group was created: the legacy group is held
C10_Witness ==
  /\ taskDefinition.networkMode = AWS_VPC
  /\ \E i \in ResolvedTasks, j \in DefaultedTasks :
       /\ j < i
       /\ CreatedGroups # {}
       /\ instances[i].securityGroup = LegacyGroup
       /\ instances[i].securityGroups = <<LegacyGroup>>
====
